---- MODULE Spec2Model ----
(***************************************************************************)
(* Model of the Neural Control Core of physical-agi                        *)
(* (src/hardware_export/nca_agent.c), of its test driver                   *)
(* (src/hardware_export/test_hardware.c) and of the UART command loops of  *)
(* the two STM32 test firmwares (src/hardware_test/stm32_self_test.c and   *)
(* src/hardware_test/stm32_wire_check.c).                                  *)
(*                                                                         *)
(* C `float` values are modelled as fixed-point numbers: the integer n     *)
(* stands for n / Q.  Every arithmetic operation rounds its exact result   *)
(* to the nearest representable value, a result beyond the largest finite  *)
(* value FMAX overflows to an infinity, and the IEEE special values        *)
(* (+inf, -inf, NaN) propagate as they do in C.  Signed zeros are not      *)
(* distinguished.  C arrays are 0-based, the model's sequences 1-based.    *)
(***************************************************************************)
EXTENDS Integers, Sequences, FiniteSets, TLC

\* ------------------------------------------------------------------------
\* The float type
\* ------------------------------------------------------------------------

\* Units per 1.0: the resolution at which the literal 0.01f is one unit.
Q == 100

\* Largest finite float, in units (the model's FLT_MAX: 400.00).
FMAX == 40000

PINF == FMAX + 1
NINF == -(FMAX + 1)
NAN == FMAX + 2

IsNaN(x) == x = NAN
IsInf(x) == x = PINF \/ x = NINF
IsFinite(x) == x >= -FMAX /\ x <= FMAX

Abs(x) == IF x < 0 THEN -x ELSE x
Sign(x) == IF x < 0 THEN -1 ELSE IF x > 0 THEN 1 ELSE 0

\* n / d rounded to the nearest integer, halves away from zero (d > 0).
RoundDiv(n, d) ==
    IF n >= 0 THEN (n + d \div 2) \div d ELSE -((-n + d \div 2) \div d)

\* A finite exact result brought into the float range: overflow gives +-inf.
Norm(x) == IF x > FMAX THEN PINF ELSE IF x < -FMAX THEN NINF ELSE x

fneg(a) == IF IsNaN(a) THEN NAN ELSE -a

fadd(a, b) ==
    IF IsNaN(a) \/ IsNaN(b) THEN NAN
    ELSE IF IsInf(a) /\ IsInf(b) THEN (IF a = b THEN a ELSE NAN)
    ELSE IF IsInf(a) THEN a
    ELSE IF IsInf(b) THEN b
    ELSE Norm(a + b)

fsub(a, b) == fadd(a, fneg(b))

fmul(a, b) ==
    IF IsNaN(a) \/ IsNaN(b) THEN NAN
    ELSE IF IsInf(a) \/ IsInf(b)
         THEN (IF a = 0 \/ b = 0 THEN NAN
               ELSE IF Sign(a) * Sign(b) > 0 THEN PINF ELSE NINF)
    ELSE Norm(RoundDiv(a * b, Q))

fdiv(a, b) ==
    IF IsNaN(a) \/ IsNaN(b) THEN NAN
    ELSE IF IsInf(a) /\ IsInf(b) THEN NAN
    ELSE IF IsInf(a) THEN (IF Sign(a) * Sign(b) >= 0 THEN PINF ELSE NINF)
    ELSE IF IsInf(b) THEN 0
    ELSE IF b = 0 THEN (IF a = 0 THEN NAN ELSE IF a > 0 THEN PINF ELSE NINF)
    ELSE Norm(Sign(b) * RoundDiv(a * Q, Abs(b)))

\* The C comparisons: false whenever an operand is NaN.
fgt(a, b) == ~IsNaN(a) /\ ~IsNaN(b) /\ a > b
flt(a, b) == ~IsNaN(a) /\ ~IsNaN(b) /\ a < b

\* (float)n of an int n.
itof(n) == Norm(n * Q)

\* ------------------------------------------------------------------------
\* libm: sqrtf, tanhf, expf, each correctly rounded to the model's resolution
\* ------------------------------------------------------------------------

RECURSIVE ISqrtSearch(_, _, _)
\* The largest r in lo..hi with r * r <= v  (lo * lo <= v < (hi + 1)^2).
ISqrtSearch(v, lo, hi) ==
    IF lo >= hi THEN lo
    ELSE LET mid == (lo + hi + 1) \div 2
         IN  IF mid * mid <= v THEN ISqrtSearch(v, mid, hi)
             ELSE ISqrtSearch(v, lo, mid - 1)

sqrtf(x) ==
    IF IsNaN(x) \/ x < 0 THEN NAN
    ELSE IF x = PINF THEN PINF
    ELSE LET v == x * Q
             r == ISqrtSearch(v, 0, 2 * Q + x)
         IN  IF v - r * r > r THEN r + 1 ELSE r

\* TanhTable[i + 1] = round(Q * tanh(i / Q)); tanh rounds to 1.0 from 3.00 on.
TanhTable ==
  << 0, 1, 2, 3, 4, 5, 6, 7, 8, 9, 10, 11, 12, 13, 14, 15, 16, 17, 18, 19,
     20, 21, 22, 23, 24, 24, 25, 26, 27, 28, 29, 30, 31, 32, 33, 34, 35, 35, 36, 37,
     38, 39, 40, 41, 41, 42, 43, 44, 45, 45, 46, 47, 48, 49, 49, 50, 51, 52, 52, 53,
     54, 54, 55, 56, 56, 57, 58, 58, 59, 60, 60, 61, 62, 62, 63, 64, 64, 65, 65, 66,
     66, 67, 68, 68, 69, 69, 70, 70, 71, 71, 72, 72, 73, 73, 74, 74, 74, 75, 75, 76,
     76, 77, 77, 77, 78, 78, 79, 79, 79, 80, 80, 80, 81, 81, 81, 82, 82, 82, 83, 83,
     83, 84, 84, 84, 85, 85, 85, 85, 86, 86, 86, 86, 87, 87, 87, 87, 88, 88, 88, 88,
     89, 89, 89, 89, 89, 90, 90, 90, 90, 90, 91, 91, 91, 91, 91, 91, 92, 92, 92, 92,
     92, 92, 92, 93, 93, 93, 93, 93, 93, 93, 94, 94, 94, 94, 94, 94, 94, 94, 94, 95,
     95, 95, 95, 95, 95, 95, 95, 95, 95, 96, 96, 96, 96, 96, 96, 96, 96, 96, 96, 96,
     96, 96, 97, 97, 97, 97, 97, 97, 97, 97, 97, 97, 97, 97, 97, 97, 97, 97, 97, 98,
     98, 98, 98, 98, 98, 98, 98, 98, 98, 98, 98, 98, 98, 98, 98, 98, 98, 98, 98, 98,
     98, 98, 98, 98, 98, 99, 99, 99, 99, 99, 99, 99, 99, 99, 99, 99, 99, 99, 99, 99,
     99, 99, 99, 99, 99, 99, 99, 99, 99, 99, 99, 99, 99, 99, 99, 99, 99, 99, 99, 99,
     99, 99, 99, 99, 99, 99, 99, 99, 99, 99, 99, 99, 99, 99, 99, 99, 99, 99, 99, 99,
     100 >>

tanhf(x) ==
    IF IsNaN(x) THEN NAN
    ELSE IF Abs(x) >= Len(TanhTable) THEN Sign(x) * Q
    ELSE Sign(x) * TanhTable[Abs(x) + 1]

\* ExpTable[i + 1] = round(Q * exp(-i / Q)).
ExpTable == << 100, 99, 98, 97, 96, 95, 94, 93, 92 >>

RECURSIVE expf(_)
\* Outside the table the argument is halved: exp(x) = exp(h) * exp(x - h).
expf(x) ==
    IF IsNaN(x) THEN NAN
    ELSE IF x = PINF THEN PINF
    ELSE IF x = NINF THEN 0
    ELSE IF x > 0 THEN fdiv(Q, expf(-x))
    ELSE IF -x < Len(ExpTable) THEN ExpTable[-x + 1]
    ELSE LET h == x \div 2 IN fmul(expf(h), expf(x - h))

\* ------------------------------------------------------------------------
\* Network parameters and configuration (nca_params_evo_agent.h)
\* ------------------------------------------------------------------------

NCA_INPUT_SIZE == 2
NCA_HIDDEN_SIZE == 2
NCA_OUTPUT_SIZE == 2

\* Parameter tables the model is checked with: w1[i][j], b1[j], w2[i][j], b2[j].
ParamSets ==
    { [w1 |-> << <<0, 0>>, <<0, 0>> >>,          b1 |-> <<0, 0>>,
       w2 |-> << <<0, 0>>, <<0, 0>> >>,          b2 |-> <<50, -50>>],
      [w1 |-> << <<100, 0>>, <<0, 100>> >>,      b1 |-> <<0, 10>>,
       w2 |-> << <<100, -50>>, <<50, 100>> >>,   b2 |-> <<0, 0>>],
      [w1 |-> << <<200, -150>>, <<-200, 100>> >>, b1 |-> <<25, -25>>,
       w2 |-> << <<300, -300>>, <<150, 300>> >>, b2 |-> <<-10, 20>>] }

\* default_config: noise and speed, as configured (units).
Noises == {0, 50, 300}
Speeds == {-100, 0, 100, 250}

\* Input vectors handed to the network, the extreme finite ones included.
Inputs ==
    { <<0, 0>>, <<100, -75>>, <<FMAX, FMAX>>, <<-FMAX, 120>> }

\* Seeds esp_random() can deliver.
MaxSeed == 1

\* rand() returns a value in 0..RAND_MAX.
RAND_MAX == 2

\* The literals of nca_act, in units: 0.01f and 0.5f.
DECAY_RATE == 1
HALF == 50

\* ------------------------------------------------------------------------
\* State
\* ------------------------------------------------------------------------

VARIABLES
    pc,          \* main of test_hardware.c: "boot" before nca_init, then "run"
    params,      \* w1, b1, w2, b2: constant after start
    config,      \* default_config: constant after start
    hidden,      \* static float hidden[NCA_HIDDEN_SIZE]
    output_buf,  \* static float output_buf[NCA_OUTPUT_SIZE]
    rngSeed,     \* the seed the random source was last given (-1: none)
    srandCalls,  \* how often srand has been called
    last,        \* the last core call: its arguments and what it returned
    prox,        \* the last ProximityModel call and its result
    tasks,       \* concurrent callers of nca_forward: position, input, output
    fw,          \* the test firmware the board runs ("none" for the core)
    host,        \* the host on the UART: what it sends, what it received
    st,          \* stm32_self_test.c: g_rx_buffer, g_rx_index, g_self_test_result
    wc           \* stm32_wire_check.c: g_rx_buffer, g_rx_index

coreVars == << pc, params, config, hidden, output_buf, rngSeed, srandCalls,
               last, prox, tasks >>

fwVars == << fw, host, st, wc >>

vars == << coreVars, fwVars >>

ZeroHidden == [j \in 1..NCA_HIDDEN_SIZE |-> 0]
ZeroOutput == [j \in 1..NCA_OUTPUT_SIZE |-> 0]

\* ------------------------------------------------------------------------
\* nca_forward
\* ------------------------------------------------------------------------

RECURSIVE Layer1Acc(_, _, _, _)
\* for (i = 0; i < NCA_INPUT_SIZE; i++) sum += input[i] * w1[i][j];
Layer1Acc(input, j, i, sum) ==
    IF i > NCA_INPUT_SIZE THEN sum
    ELSE Layer1Acc(input, j, i + 1, fadd(sum, fmul(input[i], params.w1[i][j])))

Layer1Sum(input, j) == Layer1Acc(input, j, 1, params.b1[j])

\* As HiddenWrite, the sum starting from what hidden[j] holds.
HiddenWrite_accumulate(hid, input, j) ==
    [hid EXCEPT ![j] = tanhf(fadd(hid[j], Layer1Sum(input, j)))]

\* hidden[j] = tanhf(sum);
HiddenWrite(hid, input, j) ==
    [hid EXCEPT ![j] = tanhf(Layer1Sum(input, j))]

RECURSIVE Layer1(_, _, _)
Layer1(hid, input, j) ==
    IF j > NCA_HIDDEN_SIZE THEN hid
    ELSE Layer1(HiddenWrite(hid, input, j), input, j + 1)

RECURSIVE Layer2Acc(_, _, _, _)
\* for (i = 0; i < NCA_HIDDEN_SIZE; i++) sum += hidden[i] * w2[i][j];
Layer2Acc(hid, j, i, sum) ==
    IF i > NCA_HIDDEN_SIZE THEN sum
    ELSE Layer2Acc(hid, j, i + 1, fadd(sum, fmul(hid[i], params.w2[i][j])))

Layer2Sum(hid, j) == Layer2Acc(hid, j, 1, params.b2[j])

\* output_buf[j] = tanhf(sum);
OutputWrite(obuf, hid, j) ==
    [obuf EXCEPT ![j] = tanhf(Layer2Sum(hid, j))]

RECURSIVE Layer2(_, _, _)
Layer2(obuf, hid, j) ==
    IF j > NCA_OUTPUT_SIZE THEN obuf
    ELSE Layer2(OutputWrite(obuf, hid, j), hid, j + 1)

\* output[i] = output_buf[i];
CopyOut(out, obuf, i) == [out EXCEPT ![i] = obuf[i]]

RECURSIVE CopyAll(_, _, _)
CopyAll(out, obuf, i) ==
    IF i > NCA_OUTPUT_SIZE THEN out
    ELSE CopyAll(CopyOut(out, obuf, i), obuf, i + 1)

\* One whole call, started with the static buffers holding hid and obuf and
\* the caller's array holding out: the buffers and the array it leaves.
nca_forward(input, hid, obuf, out) ==
    LET h == Layer1(hid, input, 1)
        o == Layer2(obuf, h, 1)
    IN  [hidden |-> h, output_buf |-> o, output |-> CopyAll(out, o, 1)]

\* ------------------------------------------------------------------------
\* nca_act
\* ------------------------------------------------------------------------

\* As NoiseScale, the scale halved on every call that follows a call of
\* nca_act (a scale that decays with the ticks).
NoiseScale_decaying(noise) ==
    IF last.op = "act"
    THEN fmul(last.noise_scale, HALF)
    ELSE fmul(noise, expf(fmul(fneg(noise), DECAY_RATE)))

\* As NoiseScale, the factors added.
NoiseScale_sum(noise) == fadd(noise, expf(fmul(fneg(noise), DECAY_RATE)))

\* float noise_scale = noise * expf(-noise * 0.01f);
NoiseScale(noise) == fmul(noise, expf(fmul(fneg(noise), DECAY_RATE)))

\* (float)rand() / RAND_MAX, r the value rand() returned
UniformSample(r) == fdiv(itof(r), itof(RAND_MAX))

\* (float)rand() / RAND_MAX - 0.5f
Recentred(r) == fsub(UniformSample(r), HALF)

\* As AxisNoise, the sample not recentred.
AxisNoise_uncentred(r, noise_scale) == fmul(UniformSample(r), noise_scale)

\* ((float)rand() / RAND_MAX - 0.5f) * noise_scale
AxisNoise(r, noise_scale) == fmul(Recentred(r), noise_scale)

\* output[k] * speed + the axis noise
AxisCommand(o, r, noise_scale) ==
    fadd(fmul(o, config.speed), AxisNoise(r, noise_scale))

\* The clamp to max speed: the pair (dx, dy) the call leaves in *dx and *dy.
ClampSpeed(dx0, dy0, max_speed) ==
    LET magnitude == sqrtf(fadd(fmul(dx0, dx0), fmul(dy0, dy0)))
    IN  IF fgt(magnitude, max_speed)
        THEN [magnitude |-> magnitude,
              dx |-> fmul(fdiv(dx0, magnitude), max_speed),
              dy |-> fmul(fdiv(dy0, magnitude), max_speed)]
        ELSE [magnitude |-> magnitude, dx |-> dx0, dy |-> dy0]

\* One whole call; r1 and r2 are what its two rand() calls return.  The third
\* parameter is written `float *float` at line 51; the body uses it as dy.
nca_act(input, r1, r2, hid, obuf) ==
    LET f == nca_forward(input, hid, obuf, ZeroOutput)
        noise_scale == NoiseScale(config.noise)
        dx0 == AxisCommand(f.output[1], r1, noise_scale)
        dy0 == AxisCommand(f.output[2], r2, noise_scale)
        c == ClampSpeed(dx0, dy0, config.speed)
    IN  [hidden |-> f.hidden, output_buf |-> f.output_buf, output |-> f.output,
         noise_scale |-> noise_scale,
         sample |-> << UniformSample(r1), UniformSample(r2) >>,
         centred |-> << Recentred(r1), Recentred(r2) >>,
         noise |-> << AxisNoise(r1, noise_scale), AxisNoise(r2, noise_scale) >>,
         dx0 |-> dx0, dy0 |-> dy0,
         magnitude |-> c.magnitude, dx |-> c.dx, dy |-> c.dy]

\* ------------------------------------------------------------------------
\* nca_init
\* ------------------------------------------------------------------------

\* srand(seed): the random source restarts from seed.
srand(seed) == [seed |-> seed, calls |-> srandCalls + 1]

\* As nca_init, the call of srand left out.
nca_init_unseeded(seed) == [seed |-> rngSeed, calls |-> srandCalls]

\* srand(esp_random()), seed the value esp_random() returned
nca_init(seed) == srand(seed)

\* ------------------------------------------------------------------------
\* nca_rssi and nca_get_neighbor_count
\* ------------------------------------------------------------------------

\* As nca_rssi, the quotient returned without the subtraction from 1.
nca_rssi_quotient(distance, max_distance) ==
    IF fgt(distance, max_distance) THEN 0
    ELSE fdiv(distance, max_distance)

\* float nca_rssi(float distance, float max_distance)
nca_rssi(distance, max_distance) ==
    IF fgt(distance, max_distance) THEN 0
    ELSE fsub(Q, fdiv(distance, max_distance))

\* As CountStep, with <= for <.
CountStep_inclusive(count, d, range_threshold) ==
    IF flt(d, range_threshold) \/ (~IsNaN(d) /\ d = range_threshold)
    THEN count + 1 ELSE count

\* if (distances[i] < range_threshold) count++;
CountStep(count, d, range_threshold) ==
    IF flt(d, range_threshold) THEN count + 1 ELSE count

RECURSIVE CountLoop(_, _, _, _, _)
\* for (int i = 0; i < max_neighbors; i++) ...  (i counts from 1 here)
CountLoop(distances, max_neighbors, range_threshold, i, count) ==
    IF i > max_neighbors THEN count
    ELSE CountLoop(distances, max_neighbors, range_threshold, i + 1,
                   CountStep(count, distances[i], range_threshold))

nca_get_neighbor_count(distances, max_neighbors, range_threshold) ==
    CountLoop(distances, max_neighbors, range_threshold, 1, 0)

\* ------------------------------------------------------------------------
\* The two STM32 test firmwares (src/hardware_test): chars and C strings
\* ------------------------------------------------------------------------

\* A char is a one-character string, the byte 0 the string NUL; a string
\* literal of the source is the sequence of its chars.
CR == "\r"
LF == "\n"
NUL == "\\0"

\* char g_rx_buffer[RX_BUFFER_SIZE] (the same size in both firmwares)
RX_BUFFER_SIZE == 64

\* uint8_t arithmetic
Uint8(n) == n % 256

\* strlen(s): the chars before the first NUL; s is a char array's content,
\* a NUL following it.
RECURSIVE strlenFrom(_, _)
strlenFrom(s, n) ==
    IF n < Len(s) /\ s[n + 1] # NUL THEN strlenFrom(s, n + 1) ELSE n

strlen(s) == strlenFrom(s, 0)

\* The C string a char array holds.
CStr(s) == SubSeq(s, 1, strlen(s))

\* The first n chars of a C string (all of it when it is shorter).
Prefix(s, n) == SubSeq(s, 1, IF n < Len(s) THEN n ELSE Len(s))

\* strcmp(a, b): 0 when the two C strings are equal (otherwise non-zero; the
\* sign is not used by the firmwares).
strcmp(a, b) == IF CStr(a) = CStr(b) THEN 0 ELSE 1

\* strncmp(a, b, n): 0 when the two C strings agree on their first n chars.
strncmp(a, b, n) == IF Prefix(CStr(a), n) = Prefix(CStr(b), n) THEN 0 ELSE 1

\* What a firmware transmits for one command, "<status>[<data>]\r\n": the
\* status, the brackets, the data as a format string (text) with its converted
\* integer arguments (args) and its %s argument (echo), and the line end.  No
\* response of either firmware reaches the size of the buffer snprintf formats
\* it into, so nothing is cut off.
NoFrame ==
    [status |-> "", open |-> "", text |-> "", args |-> << >>, echo |-> << >>,
     close |-> "", eol |-> ""]

\* The command names of the two firmwares, as string literals.
S_SELF_TEST == << "S", "E", "L", "F", "_", "T", "E", "S", "T" >>
S_TEST_IMU == << "T", "E", "S", "T", "_", "I", "M", "U" >>
S_TEST_MOTOR == << "T", "E", "S", "T", "_", "M", "O", "T", "O", "R" >>
S_TEST_ESP32 == << "T", "E", "S", "T", "_", "E", "S", "P", "3", "2" >>
S_TEST_BATTERY == << "T", "E", "S", "T", "_", "B", "A", "T", "T", "E", "R",
    "Y" >>
S_GET_RESULT == << "G", "E", "T", "_", "R", "E", "S", "U", "L", "T" >>
S_VERSION == << "V", "E", "R", "S", "I", "O", "N" >>
S_RESET == << "R", "E", "S", "E", "T" >>
S_GET_IMU_ID == << "G", "E", "T", "_", "I", "M", "U", "_", "I", "D" >>
S_GET_IMU == << "G", "E", "T", "_", "I", "M", "U" >>
S_GET_BATTERY == << "G", "E", "T", "_", "B", "A", "T", "T", "E", "R", "Y" >>
S_GET_ESP32_STATUS == << "G", "E", "T", "_", "E", "S", "P", "3", "2", "_",
    "S", "T", "A", "T", "U", "S" >>
S_WIRE_CHECK == << "W", "I", "R", "E", "_", "C", "H", "E", "C", "K" >>
S_ECHO == << "E", "C", "H", "O" >>

\* ------------------------------------------------------------------------
\* stm32_self_test.c
\* ------------------------------------------------------------------------

\* SelfTestResult_t g_self_test_result at start (a global without initializer);
\* battery_voltage is in millivolts.
ZeroResult ==
    [imu_ok |-> 0, motor_left_ok |-> 0, motor_right_ok |-> 0, esp32_ok |-> 0,
     battery_ok |-> 0, i2c_ok |-> 0, battery_voltage |-> 0, test_time_ms |-> 0]

\* What the hardware returns during one self-test: the WHO_AM_I register and
\* the accelerometer of the MPU6050, what the ESP32 replies before the
\* timeout (nothing: ""), the sum of the ten ADC conversions, and the ticks
\* the run takes.
WHO_AM_I_MPU6050 == 104
AccelReadings == { <<0, 0, -16000>>, <<0, 0, 100>> }
AdcSums == {0, 22960, 27010}
StHardware ==
    [who_am_i : {WHO_AM_I_MPU6050, 0}, accel : AccelReadings,
     esp32 : {"OK", ""}, adc_sum : AdcSums, ticks : {5334}]

\* uint8_t SelfTest_IMU(void)
SelfTest_IMU(hw) ==
    IF /\ hw.who_am_i = WHO_AM_I_MPU6050
       /\ hw.accel[1] > -16384 /\ hw.accel[1] < 16384
       /\ hw.accel[2] > -16384 /\ hw.accel[2] < 16384
       /\ hw.accel[3] > -32768 /\ hw.accel[3] < 0
    THEN 1 ELSE 0

\* uint8_t SelfTest_MotorLeft(void), uint8_t SelfTest_MotorRight(void)
SelfTest_MotorLeft == 1
SelfTest_MotorRight == 1

\* uint8_t SelfTest_ESP32(uint8_t timeout_sec)
SelfTest_ESP32(hw) == IF hw.esp32 = "OK" THEN 1 ELSE 0

\* (adc_value * 3.3f / 4095.0f) * 2.0f, in millivolts
AdcVoltage(adc_value) == RoundDiv(adc_value * 6600, 4095)

\* uint8_t SelfTest_Battery(float *voltage): the voltage and the verdict
SelfTest_Battery(hw) ==
    LET adc_value == hw.adc_sum \div 10
        voltage == AdcVoltage(adc_value)
    IN  [voltage |-> voltage,
         ok |-> IF voltage >= 3000 /\ voltage <= 4300 THEN 1 ELSE 0]

\* void SelfTest_Run(void): the new g_self_test_result
SelfTest_Run(result, hw) ==
    LET bat == SelfTest_Battery(hw)
    IN  [result EXCEPT !.imu_ok = SelfTest_IMU(hw),
                       !.motor_left_ok = SelfTest_MotorLeft,
                       !.motor_right_ok = SelfTest_MotorRight,
                       !.esp32_ok = SelfTest_ESP32(hw),
                       !.battery_ok = bat.ok,
                       !.battery_voltage = bat.voltage,
                       !.test_time_ms = hw.ticks]

\* The conversion %.2f of a voltage: hundredths of a volt, rounded.
Format2f(voltage) == RoundDiv(voltage, 10)

\* void UART_SendResponse(const char *status, const char *data)
UART_SendResponse(status, text, args) ==
    [status |-> status, open |-> "[", text |-> text, args |-> args,
     echo |-> << >>, close |-> "]", eol |-> "\r\n"]

\* The data of the response to SELF_TEST.
SelfTestData(result) ==
    [text |-> "IMU=%d,MOTOR_L=%d,MOTOR_R=%d,ESP32=%d,BAT=%.2fV,TIME=%lu",
     args |-> << result.imu_ok, result.motor_left_ok, result.motor_right_ok,
                 result.esp32_ok, Format2f(result.battery_voltage),
                 result.test_time_ms >>]

\* As GetResultData, battery_ok reported as ESP32.
GetResultData_batteryOk(result) ==
    [text |-> "IMU=%d,MOTOR_L=%d,MOTOR_R=%d,ESP32=%d,BAT=%.2fV",
     args |-> << result.imu_ok, result.motor_left_ok, result.motor_right_ok,
                 result.battery_ok, Format2f(result.battery_voltage) >>]

\* The data of the response to GET_RESULT.
GetResultData(result) ==
    [text |-> "IMU=%d,MOTOR_L=%d,MOTOR_R=%d,ESP32=%d,BAT=%.2fV",
     args |-> << result.imu_ok, result.motor_left_ok, result.motor_right_ok,
                 result.esp32_ok, Format2f(result.battery_voltage) >>]

\* UART_ProcessCommand, the chain of strcmp on the line in g_rx_buffer: the
\* new g_self_test_result, what is transmitted, whether SelfTest_Run ran and
\* whether HAL_NVIC_SystemReset() is called.
StCommand(buf, result, hw) ==
    IF strcmp(buf, S_SELF_TEST) = 0
    THEN LET r == SelfTest_Run(result, hw)
             d == SelfTestData(r)
         IN  [result |-> r, frame |-> UART_SendResponse("OK", d.text, d.args),
              ran |-> TRUE, reset |-> FALSE]
    ELSE IF strcmp(buf, S_GET_RESULT) = 0
    THEN LET d == GetResultData(result)
         IN  [result |-> result,
              frame |-> UART_SendResponse("OK", d.text, d.args),
              ran |-> FALSE, reset |-> FALSE]
    ELSE IF strcmp(buf, S_VERSION) = 0
    THEN [result |-> result,
          frame |-> UART_SendResponse("OK", "v1.0.0-20260218", << >>),
          ran |-> FALSE, reset |-> FALSE]
    ELSE IF strcmp(buf, S_RESET) = 0
    THEN [result |-> result,
          frame |-> UART_SendResponse("OK", "resetting", << >>),
          ran |-> FALSE, reset |-> TRUE]
    ELSE [result |-> result,
          frame |-> UART_SendResponse("FAIL", "unknown command", << >>),
          ran |-> FALSE, reset |-> FALSE]

\* The firmware's globals after start or reset.  g_rx_buffer is modelled by
\* the chars at its indices below g_rx_index (the firmware reads the buffer
\* only after writing a NUL at g_rx_index, so it never reads the others).
StBoot ==
    [g_rx_buffer |-> << >>, g_rx_index |-> 0, g_self_test_result |-> ZeroResult]

\* As StLineReady, an empty line taken as a command too.
StLineReady_always(g_rx_index) == TRUE

\* if (g_rx_index > 0)
StLineReady(g_rx_index) == g_rx_index > 0

\* As StHasRoom, the place of the closing NUL not kept free.
StHasRoom_full(g_rx_index) == g_rx_index < RX_BUFFER_SIZE

\* else if (g_rx_index < RX_BUFFER_SIZE - 1)
StHasRoom(g_rx_index) == g_rx_index < RX_BUFFER_SIZE - 1

\* An index of g_rx_buffer.
InBuffer(i) == i >= 0 /\ i < RX_BUFFER_SIZE

\* One turn of the loop of UART_ProcessCommand, ch the byte HAL_UART_Receive
\* delivered: the globals afterwards, the responses transmitted, whether
\* SelfTest_Run ran, whether the firmware restarted, and whether the turn wrote
\* outside g_rx_buffer (oob).
StProcessByte(s, ch, hw) ==
    IF ch = CR \/ ch = LF
    THEN IF StLineReady(s.g_rx_index)
         THEN LET c == StCommand(s.g_rx_buffer, s.g_self_test_result, hw)
              IN  [st |-> IF c.reset
                          THEN StBoot
                          ELSE [g_rx_buffer |-> << >>, g_rx_index |-> 0,
                                g_self_test_result |-> c.result],
                   frames |-> << c.frame >>, ran |-> c.ran, reset |-> c.reset,
                   oob |-> ~InBuffer(s.g_rx_index)]
         ELSE [st |-> s, frames |-> << >>, ran |-> FALSE, reset |-> FALSE,
               oob |-> FALSE]
    ELSE IF StHasRoom(s.g_rx_index)
    THEN [st |-> [s EXCEPT !.g_rx_buffer =
                               IF InBuffer(s.g_rx_index)
                               THEN Append(s.g_rx_buffer, ch)
                               ELSE s.g_rx_buffer,
                           !.g_rx_index = Uint8(s.g_rx_index + 1)],
          frames |-> << >>, ran |-> FALSE, reset |-> FALSE,
          oob |-> ~InBuffer(s.g_rx_index)]
    ELSE [st |-> s, frames |-> << >>, ran |-> FALSE, reset |-> FALSE,
          oob |-> FALSE]

\* ------------------------------------------------------------------------
\* stm32_wire_check.c
\* ------------------------------------------------------------------------

\* As COMMANDS, GET_IMU listed before GET_IMU_ID.
COMMANDS_imuFirst ==
    << [cmd |-> S_VERSION, func |-> "cmd_version"],
       [cmd |-> S_GET_IMU, func |-> "cmd_get_imu"],
       [cmd |-> S_GET_IMU_ID, func |-> "cmd_get_imu_id"],
       [cmd |-> S_TEST_MOTOR, func |-> "cmd_test_motor"],
       [cmd |-> S_GET_BATTERY, func |-> "cmd_get_battery"],
       [cmd |-> S_GET_ESP32_STATUS, func |-> "cmd_get_esp32_status"],
       [cmd |-> S_WIRE_CHECK, func |-> "cmd_wire_check_all"] >>

\* const Command_t COMMANDS[]: the name and the handler of each entry
COMMANDS ==
    << [cmd |-> S_VERSION, func |-> "cmd_version"],
       [cmd |-> S_GET_IMU_ID, func |-> "cmd_get_imu_id"],
       [cmd |-> S_GET_IMU, func |-> "cmd_get_imu"],
       [cmd |-> S_TEST_MOTOR, func |-> "cmd_test_motor"],
       [cmd |-> S_GET_BATTERY, func |-> "cmd_get_battery"],
       [cmd |-> S_GET_ESP32_STATUS, func |-> "cmd_get_esp32_status"],
       [cmd |-> S_WIRE_CHECK, func |-> "cmd_wire_check_all"] >>

\* #define CMD_COUNT (sizeof(COMMANDS) / sizeof(Command_t))
CMD_COUNT == Len(COMMANDS)

\* What the hardware returns while one command is handled: the WHO_AM_I
\* register, the six IMU values (whatever the array holds when the read
\* fails), the ADC conversion and HAL_GetTick().
ImuReadings == { <<0, 0, 0, 0, 0, 0>>, <<12, -340, 16384, 1, -2, 3>> }
WcHardware ==
    [who_am_i : {WHO_AM_I_MPU6050, 0}, imu : ImuReadings, adc : {0, 2296},
     tick : {41012}]

\* What a handler returns: "OK[...]" or "FAIL[...]", not yet ended by CR LF.
Result(status, text, args) ==
    [status |-> status, open |-> "[", text |-> text, args |-> args,
     echo |-> << >>, close |-> "]", eol |-> ""]

cmd_version(hw) ==
    Result("OK", "STM32F4-NCAMesh-v1.0-20260218-Checksum:%lu",
           << hw.tick % 1000 >>)

cmd_get_imu_id(hw) ==
    IF hw.who_am_i = WHO_AM_I_MPU6050
    THEN Result("OK", "IMU_ID=0x68(104)", << >>)
    ELSE Result("FAIL", "IMU_ID=0x%02X", << hw.who_am_i >>)

cmd_get_imu(hw) ==
    Result("OK", "AX=%d,AY=%d,AZ=%d,GX=%d,GY=%d,GZ=%d", hw.imu)

cmd_test_motor(hw) == Result("OK", "MOTOR_TEST_SENT-Timer:%lu", << hw.tick >>)

cmd_get_battery(hw) ==
    Result("OK", "VOLTAGE=%.2f", << Format2f(AdcVoltage(hw.adc)) >>)

cmd_get_esp32_status(hw) ==
    Result("OK", "ESP32=OK-Version:1.0-Time:%lu", << hw.tick >>)

cmd_echo(arg) == [Result("OK", "ECHO=%s", << >>) EXCEPT !.echo = CStr(arg)]

cmd_wire_check_all(hw) ==
    Result("OK", "WIRE_CHECK={IMU=0x%02X,BATTERY=%.2fV,UART=OK,TIME=%lu}",
           << hw.who_am_i, Format2f(AdcVoltage(hw.adc)), hw.tick >>)

\* COMMANDS[i].func()
Call(func, hw) ==
    CASE func = "cmd_version" -> cmd_version(hw)
      [] func = "cmd_get_imu_id" -> cmd_get_imu_id(hw)
      [] func = "cmd_get_imu" -> cmd_get_imu(hw)
      [] func = "cmd_test_motor" -> cmd_test_motor(hw)
      [] func = "cmd_get_battery" -> cmd_get_battery(hw)
      [] func = "cmd_get_esp32_status" -> cmd_get_esp32_status(hw)
      [] func = "cmd_wire_check_all" -> cmd_wire_check_all(hw)

\* while (*arg == ' ') arg++;  s is what follows the command's name
RECURSIVE SkipSpaces(_)
SkipSpaces(s) ==
    IF Len(s) > 0 /\ s[1] = " " THEN SkipSpaces(Tail(s)) ELSE s

\* The for loop of process_command from entry i on (1-based): the handler's
\* result, NoFrame standing for result == NULL.
RECURSIVE CommandLoop(_, _, _)
CommandLoop(cmd, i, hw) ==
    IF i > CMD_COUNT
    THEN NoFrame
    ELSE IF strncmp(cmd, COMMANDS[i].cmd, strlen(COMMANDS[i].cmd)) = 0
    THEN LET arg == SkipSpaces(SubSeq(CStr(cmd), strlen(COMMANDS[i].cmd) + 1,
                                      strlen(cmd)))
         IN  IF strcmp(COMMANDS[i].cmd, S_ECHO) = 0
             THEN cmd_echo(arg)
             ELSE Call(COMMANDS[i].func, hw)
    ELSE CommandLoop(cmd, i + 1, hw)

\* void process_command(const char *cmd): what is transmitted
process_command(cmd, hw) ==
    LET result == CommandLoop(cmd, 1, hw)
    IN  IF result # NoFrame
        THEN [result EXCEPT !.eol = "\r\n"]
        ELSE [status |-> "FAIL", open |-> "[", text |-> "UNKNOWN_CMD:%s",
              args |-> << >>, echo |-> CStr(cmd), close |-> "]",
              eol |-> "\r\n"]

\* The firmware's globals at start (g_rx_buffer modelled as in StBoot).
WcBoot == [g_rx_buffer |-> << >>, g_rx_index |-> 0]

\* if (g_rx_index > 0)
WcLineReady(g_rx_index) == g_rx_index > 0

\* else if (g_rx_index < RX_BUFFER_SIZE - 1)
WcHasRoom(g_rx_index) == g_rx_index < RX_BUFFER_SIZE - 1

\* One turn of the loop of main in which HAL_UART_Receive delivered ch: the
\* globals afterwards, the responses transmitted, and whether the turn wrote
\* outside g_rx_buffer (oob).
WcProcessByte(s, ch, hw) ==
    IF ch = CR \/ ch = LF
    THEN IF WcLineReady(s.g_rx_index)
         THEN [wc |-> [g_rx_buffer |-> << >>, g_rx_index |-> 0],
               frames |-> << process_command(s.g_rx_buffer, hw) >>,
               oob |-> ~InBuffer(s.g_rx_index)]
         ELSE [wc |-> s, frames |-> << >>, oob |-> FALSE]
    ELSE IF WcHasRoom(s.g_rx_index)
    THEN [wc |-> [g_rx_buffer |-> IF InBuffer(s.g_rx_index)
                                  THEN Append(s.g_rx_buffer, ch)
                                  ELSE s.g_rx_buffer,
                  g_rx_index |-> Uint8(s.g_rx_index + 1)],
          frames |-> << >>, oob |-> ~InBuffer(s.g_rx_index)]
    ELSE [wc |-> s, frames |-> << >>, oob |-> FALSE]

\* ------------------------------------------------------------------------
\* The host on the other end of the UART
\* ------------------------------------------------------------------------

\* The result SelfTest_Run stored, if it ran.
NoRun == [valid |-> FALSE, result |-> ZeroResult]

\* The host before it sends anything: the line it is sending and how many of
\* its bytes it has sent, the lines it has started, the terminators it sent
\* in a row, the last byte sent; whether it received the ready banner, the
\* number of responses it received and the last of them; whether a write went
\* outside g_rx_buffer so far; the result the last SelfTest_Run stored, ever
\* and since the firmware last started.
NoHost ==
    [line |-> << >>, pos |-> 0, nLines |-> 0, termRun |-> 0, ch |-> NUL,
     banner |-> FALSE, txCount |-> 0, txLast |-> NoFrame, oob |-> FALSE,
     lastRun |-> NoRun, bootRun |-> NoRun]

\* Lines the host sends in a run, and terminators it sends in a row.
MaxLines == 3
MaxTermRun == 2

\* A line longer than g_rx_buffer.
LongLine == S_VERSION \o [i \in 1..(RX_BUFFER_SIZE - 1) |-> "X"]

\* The lines sent to the self-test firmware: the documented commands, lines
\* that are no command, a line with a NUL byte, a line too long.
StLines ==
    { S_SELF_TEST, S_TEST_IMU, S_TEST_MOTOR, S_TEST_ESP32, S_TEST_BATTERY,
      S_GET_RESULT, S_VERSION, S_RESET, S_ECHO, S_VERSION \o << " " >>,
      S_VERSION \o << NUL, "x" >>, LongLine }

\* The lines sent to the wire-check firmware: the names of COMMANDS, names
\* followed by more, lines no name is a prefix of, a line with a NUL byte, a
\* line too long.
WcLines ==
    { S_VERSION, S_GET_IMU_ID, S_GET_IMU, S_TEST_MOTOR, S_GET_BATTERY,
      S_GET_ESP32_STATUS, S_WIRE_CHECK, S_ECHO \o << " ", "h", "i" >>,
      S_GET_IMU \o << "X" >>, S_VERSION \o << " ", " ", "2" >>,
      << "G", "E", "T" >>, S_GET_IMU \o << NUL, "_", "I", "D" >>, LongLine }

\* The host after sending one more byte (ch): the first byte of a new line
\* (at the start or after a terminator), the next byte of the line it is
\* sending, or CR or LF once the line is complete.
HostSends(h, lines) ==
    { [h EXCEPT !.line = l, !.pos = 1, !.nLines = h.nLines + 1,
                !.termRun = 0, !.ch = l[1]] :
        l \in IF /\ h.pos = Len(h.line)
                 /\ h.termRun > 0 \/ h.nLines = 0
                 /\ h.nLines < MaxLines
              THEN lines ELSE {} }
    \cup { [h EXCEPT !.pos = h.pos + 1, !.ch = h.line[h.pos + 1]] :
             x \in IF h.pos < Len(h.line) THEN {0} ELSE {} }
    \cup { [h EXCEPT !.termRun = h.termRun + 1, !.ch = t] :
             t \in IF h.pos = Len(h.line) /\ h.termRun < MaxTermRun
                   THEN {CR, LF} ELSE {} }

\* The host after the firmware's turn: the responses transmitted arrive.
HostReceives(h, frames, oob) ==
    [h EXCEPT !.txCount = h.txCount + Len(frames),
              !.txLast = IF Len(frames) > 0 THEN frames[Len(frames)]
                         ELSE h.txLast,
              !.oob = h.oob \/ oob]

\* No firmware is running (the specifications of the core).
FwOff == fw = "none" /\ host = NoHost /\ st = StBoot /\ wc = WcBoot

\* ------------------------------------------------------------------------
\* The control loop: main calls nca_init once, then the core is called tick
\* after tick
\* ------------------------------------------------------------------------

NoCall ==
    [op |-> "none", input |-> <<0, 0>>, r1 |-> 0, r2 |-> 0, stale |-> FALSE,
     output |-> ZeroOutput, noise_scale |-> 0, sample |-> <<0, 0>>,
     centred |-> <<0, 0>>, noise |-> <<0, 0>>, dx0 |-> 0, dy0 |-> 0,
     magnitude |-> 0, dx |-> 0, dy |-> 0]

NoProx ==
    [op |-> "none", distance |-> 0, max_distance |-> 0, distances |-> << >>,
     max_neighbors |-> 0, range_threshold |-> 0, done |-> FALSE, ret |-> 0]

\* Whether a call found, in the static buffers, values of an earlier call
\* that differ from the ones it leaves there itself (f: what the call leaves).
Stale(f) ==
    /\ hidden # ZeroHidden \/ output_buf # ZeroOutput
    /\ hidden # f.hidden \/ output_buf # f.output_buf

Tasks == {1, 2}

IdleTasks ==
    [t \in Tasks |-> [at |-> "idle", j |-> 1, input |-> <<0, 0>>,
                      output |-> ZeroOutput]]

Init ==
    /\ pc = "boot"
    /\ params \in ParamSets
    /\ config \in [noise : Noises, speed : Speeds]
    /\ hidden = ZeroHidden
    /\ output_buf = ZeroOutput
    /\ rngSeed = -1
    /\ srandCalls = 0
    /\ last = NoCall
    /\ prox = NoProx
    /\ tasks = IdleTasks
    /\ FwOff

\* main: nca_init();
NcaInit ==
    /\ pc = "boot"
    /\ \E seed \in 0..MaxSeed :
         \E s \in {nca_init(seed)} :
             /\ rngSeed' = s.seed
             /\ srandCalls' = s.calls
    /\ pc' = "run"
    /\ UNCHANGED fwVars
    /\ UNCHANGED << params, config, hidden, output_buf, last, prox, tasks >>

\* A call nca_forward(input, output) from the control loop.
Forward ==
    /\ pc = "run"
    /\ \E input \in Inputs :
         \E f \in {nca_forward(input, hidden, output_buf, ZeroOutput)} :
             /\ hidden' = f.hidden
             /\ output_buf' = f.output_buf
             /\ last' = [NoCall EXCEPT !.op = "forward", !.input = input,
                                       !.stale = Stale(f),
                                       !.output = f.output]
    /\ UNCHANGED fwVars
    /\ UNCHANGED << pc, params, config, rngSeed, srandCalls, prox, tasks >>

\* A call nca_act(input, &dx, &dy) from the control loop.
Act ==
    /\ pc = "run"
    /\ \E input \in Inputs, r1 \in 0..RAND_MAX, r2 \in 0..RAND_MAX :
         \E a \in {nca_act(input, r1, r2, hidden, output_buf)} :
             /\ hidden' = a.hidden
             /\ output_buf' = a.output_buf
             /\ last' = [op |-> "act", input |-> input, r1 |-> r1, r2 |-> r2,
                         stale |-> Stale(a),
                         output |-> a.output, noise_scale |-> a.noise_scale,
                         sample |-> a.sample, centred |-> a.centred,
                         noise |-> a.noise,
                         dx0 |-> a.dx0, dy0 |-> a.dy0,
                         magnitude |-> a.magnitude, dx |-> a.dx, dy |-> a.dy]
    /\ UNCHANGED fwVars
    /\ UNCHANGED << pc, params, config, rngSeed, srandCalls, prox, tasks >>

Next == NcaInit \/ Forward \/ Act

Spec == Init /\ [][Next]_vars

\* ------------------------------------------------------------------------
\* The ProximityModel functions, each applied to arguments drawn at the start
\* ------------------------------------------------------------------------

\* Longest distance array drawn (besides the arrays of ExampleArrays).
MaxNeighbors == 3

\* Values, in units, of distance and max_distance: 5.00 is 500.
RssiDistances == {-FMAX, -2000, -500, 0, 333, 500, 1000, 1500, FMAX}
RssiMaxDistances == {-1000, 0, 1, 300, 1000, FMAX}

\* Entries of a distance array, and the range thresholds.
DistanceValues == {100, 200, 300, 400, 500, NAN}
Thresholds == {300, 450}
ExampleArrays == { <<100, 200, 300, 400, 500>> }

DistanceArrays ==
    ExampleArrays
        \cup UNION { [1..n -> DistanceValues] : n \in 0..MaxNeighbors }

\* The calls drawn: max_neighbors never exceeds the array's length.
ProxCalls ==
    { [NoProx EXCEPT !.op = "rssi", !.distance = d, !.max_distance = m] :
        d \in RssiDistances, m \in RssiMaxDistances }
    \cup UNION { { [NoProx EXCEPT !.op = "count", !.distances = ds,
                                  !.max_neighbors = n, !.range_threshold = th] :
                     n \in -1..Len(ds), th \in Thresholds } :
                 ds \in DistanceArrays }

InitProx ==
    /\ pc = "run"
    /\ params = CHOOSE p \in ParamSets : TRUE
    /\ config = [noise |-> 0, speed |-> 100]
    /\ hidden = ZeroHidden
    /\ output_buf = ZeroOutput
    /\ rngSeed = 0
    /\ srandCalls = 1
    /\ last = NoCall
    /\ prox \in ProxCalls
    /\ tasks = IdleTasks
    /\ FwOff

\* A call nca_rssi(distance, max_distance).
Rssi ==
    /\ prox.op = "rssi" /\ ~prox.done
    /\ prox' = [prox EXCEPT !.done = TRUE,
                            !.ret = nca_rssi(prox.distance, prox.max_distance)]
    /\ UNCHANGED fwVars
    /\ UNCHANGED << pc, params, config, hidden, output_buf, rngSeed,
                    srandCalls, last, tasks >>

\* A call nca_get_neighbor_count(distances, max_neighbors, range_threshold).
NeighborCount ==
    /\ prox.op = "count" /\ ~prox.done
    /\ prox' = [prox EXCEPT !.done = TRUE,
                            !.ret = nca_get_neighbor_count(prox.distances,
                                        prox.max_neighbors, prox.range_threshold)]
    /\ UNCHANGED fwVars
    /\ UNCHANGED << pc, params, config, hidden, output_buf, rngSeed,
                    srandCalls, last, tasks >>

NextProx == Rssi \/ NeighborCount

SpecProx == InitProx /\ [][NextProx]_vars

\* ------------------------------------------------------------------------
\* nca_forward called from two tasks at once: the statements of the two calls
\* interleave, each task with its own input and output arrays, both on the
\* static buffers
\* ------------------------------------------------------------------------

InitConc ==
    /\ pc = "run"
    /\ params \in ParamSets
    /\ config = [noise |-> 0, speed |-> 100]
    /\ hidden = ZeroHidden
    /\ output_buf = ZeroOutput
    /\ rngSeed = 0
    /\ srandCalls = 1
    /\ last = NoCall
    /\ prox = NoProx
    /\ tasks = IdleTasks
    /\ FwOff

\* Task t enters nca_forward(input, output).
ConcCall(t) ==
    /\ tasks[t].at = "idle"
    /\ \E input \in Inputs :
         tasks' = [tasks EXCEPT ![t] = [at |-> "layer1", j |-> 1,
                                        input |-> input, output |-> ZeroOutput]]
    /\ UNCHANGED fwVars
    /\ UNCHANGED << pc, params, config, hidden, output_buf, rngSeed,
                    srandCalls, last, prox >>

\* Task t runs one iteration of the first loop: hidden[j] = tanhf(sum).
ConcLayer1(t) ==
    /\ tasks[t].at = "layer1"
    /\ hidden' = HiddenWrite(hidden, tasks[t].input, tasks[t].j)
    /\ tasks' = [tasks EXCEPT ![t] =
                   IF tasks[t].j < NCA_HIDDEN_SIZE
                   THEN [@ EXCEPT !.j = @ + 1]
                   ELSE [@ EXCEPT !.at = "layer2", !.j = 1]]
    /\ UNCHANGED fwVars
    /\ UNCHANGED << pc, params, config, output_buf, rngSeed, srandCalls,
                    last, prox >>

\* Task t runs one iteration of the second loop: output_buf[j] = tanhf(sum).
ConcLayer2(t) ==
    /\ tasks[t].at = "layer2"
    /\ output_buf' = OutputWrite(output_buf, hidden, tasks[t].j)
    /\ tasks' = [tasks EXCEPT ![t] =
                   IF tasks[t].j < NCA_OUTPUT_SIZE
                   THEN [@ EXCEPT !.j = @ + 1]
                   ELSE [@ EXCEPT !.at = "copy", !.j = 1]]
    /\ UNCHANGED fwVars
    /\ UNCHANGED << pc, params, config, hidden, rngSeed, srandCalls,
                    last, prox >>

\* Task t runs one iteration of the third loop: output[i] = output_buf[i].
ConcCopy(t) ==
    /\ tasks[t].at = "copy"
    /\ tasks' = [tasks EXCEPT ![t] =
                   [at |-> IF tasks[t].j < NCA_OUTPUT_SIZE THEN "copy" ELSE "done",
                    j |-> IF tasks[t].j < NCA_OUTPUT_SIZE THEN tasks[t].j + 1 ELSE 1,
                    input |-> tasks[t].input,
                    output |-> CopyOut(tasks[t].output, output_buf, tasks[t].j)]]
    /\ UNCHANGED fwVars
    /\ UNCHANGED << pc, params, config, hidden, output_buf, rngSeed,
                    srandCalls, last, prox >>

NextConc ==
    \E t \in Tasks : ConcCall(t) \/ ConcLayer1(t) \/ ConcLayer2(t) \/ ConcCopy(t)

SpecConc == InitConc /\ [][NextConc]_vars

\* ------------------------------------------------------------------------
\* A board running one of the two firmwares, a host sending it lines
\* ------------------------------------------------------------------------

InitFw ==
    /\ pc = "run"
    /\ params = CHOOSE p \in ParamSets : TRUE
    /\ config = [noise |-> 0, speed |-> 100]
    /\ hidden = ZeroHidden
    /\ output_buf = ZeroOutput
    /\ rngSeed = 0
    /\ srandCalls = 1
    /\ last = NoCall
    /\ prox = NoProx
    /\ tasks = IdleTasks
    /\ fw \in {"self_test", "wire_check"}
    /\ host = [NoHost EXCEPT !.banner = (fw = "wire_check")]
    /\ st = StBoot
    /\ wc = WcBoot

\* stm32_self_test.c: HAL_UART_Receive delivers a byte and UART_ProcessCommand
\* runs one turn of its loop.
StReceive ==
    /\ fw = "self_test"
    /\ \E h \in HostSends(host, StLines) :
         \E hw \in IF h.ch \in {CR, LF} THEN StHardware
                   ELSE {CHOOSE x \in StHardware : TRUE} :
           \E r \in {StProcessByte(st, h.ch, hw)} :
             \E run \in {[valid |-> TRUE,
                          result |-> r.st.g_self_test_result]} :
               /\ st' = r.st
               /\ host' = [HostReceives(h, r.frames, r.oob) EXCEPT
                             !.lastRun = IF r.ran THEN run ELSE @,
                             !.bootRun = IF r.reset THEN NoRun
                                         ELSE IF r.ran THEN run ELSE @]
    /\ UNCHANGED << fw, wc >>
    /\ UNCHANGED coreVars

\* stm32_wire_check.c: HAL_UART_Receive delivers a byte and main runs one turn
\* of its loop.
WcReceive ==
    /\ fw = "wire_check"
    /\ \E h \in HostSends(host, WcLines) :
         \E hw \in IF h.ch \in {CR, LF} THEN WcHardware
                   ELSE {CHOOSE x \in WcHardware : TRUE} :
           \E r \in {WcProcessByte(wc, h.ch, hw)} :
               /\ wc' = r.wc
               /\ host' = HostReceives(h, r.frames, r.oob)
    /\ UNCHANGED << fw, st >>
    /\ UNCHANGED coreVars

NextFw == StReceive \/ WcReceive

SpecFw == InitFw /\ [][NextFw]_vars

\* ------------------------------------------------------------------------
\* Properties of the core
\* ------------------------------------------------------------------------

\* A float in the closed interval [lo, hi] (NaN is in no interval).
InRange(x, lo, hi) == ~IsNaN(x) /\ x >= lo /\ x <= hi

\* The tolerance granted to the magnitude of a command at a given speed: the
\* clamp rounds three times (the norm, the quotient, the product), and the
\* quotient's rounding is scaled by the speed.
Tolerance(speed) == 2 + (2 * speed) \div Q

\* sqrt(dx^2 + dy^2) <= bound, for finite dx and dy.
NormAtMost(dx, dy, bound) ==
    /\ IsFinite(dx) /\ IsFinite(dy)
    /\ Abs(dx) <= bound /\ Abs(dy) <= bound
    /\ dx * dx + dy * dy <= bound * bound

\* C1: the command nca_act returns has magnitude at most speed (up to the
\* rounding tolerance), for every input, every configuration with speed > 0
\* and noise >= 0 and every pair of random draws.
C1_MagnitudeWithinSpeed ==
    (last.op = "act" /\ config.speed > 0 /\ config.noise >= 0)
        => NormAtMost(last.dx, last.dy, config.speed + Tolerance(config.speed))

\* C1 where the network's output is a number: the clamp keeps the magnitude
\* within speed.
C1_NumberWithinSpeed ==
    (last.op = "act" /\ config.speed > 0 /\ config.noise >= 0
       /\ ~IsNaN(last.output[1]) /\ ~IsNaN(last.output[2]))
        => NormAtMost(last.dx, last.dy, config.speed + Tolerance(config.speed))

\* C2: every component nca_forward writes to its output array lies in [-1, 1],
\* for every finite input vector.
C2_OutputInUnitInterval ==
    last.op = "forward" =>
        \A k \in 1..NCA_OUTPUT_SIZE : InRange(last.output[k], -Q, Q)

\* C2 where no sum is NaN: a component is NaN or lies in [-1, 1].
C2_NumberInUnitInterval ==
    last.op = "forward" =>
        \A k \in 1..NCA_OUTPUT_SIZE :
            IsNaN(last.output[k]) \/ InRange(last.output[k], -Q, Q)

\* C7: the output of a call of nca_forward is the output of a call with the
\* same input that finds the static buffers as they are at program start,
\* whatever earlier calls left in hidden and output_buf.
C7_ForwardKeepsNoState ==
    last.op = "forward" =>
        last.output
            = nca_forward(last.input, ZeroHidden, ZeroOutput, ZeroOutput).output

\* A call of nca_forward that found other values of an earlier call in the
\* static buffers.
C7_Witness == last.op = "forward" /\ last.stale

\* C9: with noise = 0 the command nca_act returned is the one it returns for
\* every other pair of values rand() could have returned.
C9_NoNoiseDeterministic ==
    (last.op = "act" /\ config.noise = 0) =>
        \A r1 \in 0..RAND_MAX, r2 \in 0..RAND_MAX :
            \A a \in {nca_act(last.input, r1, r2, hidden, output_buf)} :
                a.dx = last.dx /\ a.dy = last.dy

\* A call of nca_act with noise = 0 that drew two different values and
\* returned a command other than zero.
C9_Witness ==
    /\ last.op = "act" /\ config.noise = 0 /\ config.speed > 0
    /\ last.r1 # last.r2
    /\ IsFinite(last.dx) /\ last.dx # 0

\* C10: the random source is seeded exactly once, by nca_init, before the
\* first call of nca_act, and no later step seeds it again.
C10_SeededOnce ==
    /\ [](pc = "boot" => srandCalls = 0 /\ last.op = "none")
    /\ [](pc = "run" => srandCalls = 1 /\ rngSeed \in 0..MaxSeed)
    /\ [][(srandCalls' # srandCalls \/ rngSeed' # rngSeed) => pc = "boot"]_vars

\* A call of nca_act, made after the one seeding.
C10_Witness == last.op = "act" /\ srandCalls = 1 /\ rngSeed \in 0..MaxSeed

\* ------------------------------------------------------------------------
\* Properties of concurrent calls
\* ------------------------------------------------------------------------

\* C8: a call of nca_forward that runs concurrently with another returns the
\* output it returns when run alone.
C8_ConcurrentCallsIsolated ==
    \A t \in Tasks :
        tasks[t].at = "done" =>
            tasks[t].output
                = nca_forward(tasks[t].input, ZeroHidden, ZeroOutput,
                              ZeroOutput).output

\* ------------------------------------------------------------------------
\* Properties of the ProximityModel
\* ------------------------------------------------------------------------

\* C3: nca_get_neighbor_count returns the number of indices below
\* max_neighbors whose distance is strictly less than range_threshold; an
\* entry equal to the threshold is not counted.
C3_CountsStrictlyLess ==
    (prox.op = "count" /\ prox.done) =>
        /\ prox.ret = Cardinality({ i \in 1..prox.max_neighbors :
                                      /\ ~IsNaN(prox.distances[i])
                                      /\ prox.distances[i] < prox.range_threshold })
        /\ (/\ prox.distances = <<100, 200, 300, 400, 500>>
            /\ prox.max_neighbors = 5
            /\ prox.range_threshold = 300) => prox.ret = 2
        /\ (/\ prox.distances = <<300>>
            /\ prox.max_neighbors = 1
            /\ prox.range_threshold = 300) => prox.ret = 0

\* The call on [1, 2, 3, 4, 5] with threshold 3 has returned 2.
C3_Witness ==
    /\ prox.op = "count" /\ prox.done
    /\ prox.distances = <<100, 200, 300, 400, 500>>
    /\ prox.max_neighbors = 5
    /\ prox.range_threshold = 300
    /\ prox.ret = 2

\* ret is 1 - distance / max_distance: max_distance * (1 - ret) is distance,
\* up to the rounding of the quotient.
IsOneMinusQuotient(ret, distance, max_distance) ==
    LET err == Abs((Q - ret) * max_distance - distance * Q)
    IN  err <= Abs(max_distance) /\ 2 * err <= Abs(max_distance)

\* C4: nca_rssi returns 0 when distance > max_distance and 1 - distance /
\* max_distance otherwise; nca_rssi(0, 10) = 1, nca_rssi(5, 10) = 0.5,
\* nca_rssi(10, 10) = 0, nca_rssi(15, 10) = 0.
C4_RssiLinearFalloff ==
    (prox.op = "rssi" /\ prox.done) =>
        LET d == prox.distance
            m == prox.max_distance
        IN  /\ d > m => prox.ret = 0
            /\ (d <= m /\ IsFinite(prox.ret)) => IsOneMinusQuotient(prox.ret, d, m)
            /\ (d <= m /\ IsInf(prox.ret)) =>
                   (Abs(d) + Abs(m)) * Q + Abs(m) > FMAX * Abs(m)
            /\ (d <= m /\ IsNaN(prox.ret)) => (d = 0 /\ m = 0)
            /\ (d = 0 /\ m = 1000) => prox.ret = 100
            /\ (d = 500 /\ m = 1000) => prox.ret = 50
            /\ (d = 1000 /\ m = 1000) => prox.ret = 0
            /\ (d = 1500 /\ m = 1000) => prox.ret = 0

\* nca_rssi(5, 10) has returned 0.5.
C4_Witness ==
    /\ prox.op = "rssi" /\ prox.done
    /\ prox.distance = 500 /\ prox.max_distance = 1000
    /\ prox.ret = 50

\* C5: the signal strength nca_rssi returns lies in [0, 1], for every
\* distance and every max_distance.
C5_RssiInUnitInterval ==
    (prox.op = "rssi" /\ prox.done) => InRange(prox.ret, 0, Q)

\* a >= b as C compares floats.
fge(a, b) == ~IsNaN(a) /\ ~IsNaN(b) /\ a >= b

\* The value returned is at least the value nca_rssi returns for every
\* distance that is not smaller, max_distance the same.
RssiNotBelowLater ==
    \A d2 \in RssiDistances :
        prox.distance <= d2 =>
            fge(prox.ret, nca_rssi(d2, prox.max_distance))

\* C6, as stated: with max_distance fixed, nca_rssi is non-increasing in
\* distance.
C6_RssiMonotone ==
    (prox.op = "rssi" /\ prox.done) => RssiNotBelowLater

\* C6 where max_distance is positive: nca_rssi is non-increasing in distance.
C6_RssiMonotonePositiveMax ==
    (prox.op = "rssi" /\ prox.done /\ prox.max_distance > 0)
        => RssiNotBelowLater

\* C11: with config.speed <= 0 the command nca_act returns has magnitude 0
\* (both components are 0), for every input, noise and pair of rand() values.
C11_NonPositiveSpeedZeroCommand ==
    (last.op = "act" /\ config.speed <= 0) => (last.dx = 0 /\ last.dy = 0)

\* C11 for speed = 0 and an output of the network that is a number.
C11_ZeroSpeedNumberZeroCommand ==
    (last.op = "act" /\ config.speed = 0
       /\ ~IsNaN(last.output[1]) /\ ~IsNaN(last.output[2]))
        => (last.dx = 0 /\ last.dy = 0)

\* C11 for speed < 0: the command is never the zero command (the clamp
\* always rescales, to magnitude -speed, or divides 0 by 0).
C11_NegativeSpeedNeverZero ==
    (last.op = "act" /\ config.speed < 0) => ~(last.dx = 0 /\ last.dy = 0)

C15_SampleInHalfOpenInterval ==
    last.op = "act" =>
        \A k \in 1..2 :
            /\ InRange(last.sample[k], 0, Q) /\ last.sample[k] # Q
            /\ InRange(last.centred[k], -HALF, HALF) /\ last.centred[k] # HALF
            /\ last.noise_scale > 0
                 => last.noise[k] < fmul(HALF, last.noise_scale)

\* C15, amended: each axis' sample lies in the closed interval [0, 1], its
\* recentred value in [-0.5, 0.5], and the noise added to the axis is at most
\* 0.5 * noise_scale in absolute value.
C15_SampleInClosedInterval ==
    last.op = "act" =>
        \A k \in 1..2 :
            /\ InRange(last.sample[k], 0, Q)
            /\ InRange(last.centred[k], -HALF, HALF)
            /\ IsFinite(last.noise_scale)
                 => InRange(last.noise[k], -fmul(HALF, Abs(last.noise_scale)),
                            fmul(HALF, Abs(last.noise_scale)))

\* A call of nca_act whose first rand() returned RAND_MAX: the sample is 1 and
\* the noise added is 0.5 * noise_scale.
C15_Witness ==
    /\ last.op = "act" /\ last.r1 = RAND_MAX /\ last.noise_scale > 0
    /\ last.sample[1] = Q
    /\ last.noise[1] = fmul(HALF, last.noise_scale)

\* x keeps the sign of x0 (a small x may round to 0).
KeepsSign(x, x0) == (x0 > 0 => x >= 0) /\ (x0 < 0 => x <= 0) /\ (x0 = 0 => x = 0)

\* (dx, dy) keeps the direction of (dx0, dy0): the signs, and the ratio
\* dx : dy up to the rounding of the two components.
KeepsDirection(dx, dy, dx0, dy0, tol) ==
    /\ IsFinite(dx) /\ IsFinite(dy)
    /\ KeepsSign(dx, dx0) /\ KeepsSign(dy, dy0)
    /\ Abs(dx * dy0 - dy * dx0) <= tol * (Abs(dx0) + Abs(dy0))

\* The magnitude of (dx, dy) is speed, up to the rounding tolerance.
NormIs(dx, dy, speed) ==
    /\ NormAtMost(dx, dy, speed + Tolerance(Abs(speed)))
    /\ ~NormAtMost(dx, dy, speed - Tolerance(Abs(speed)) - 1)

\* What the clamp of the last call did to a pre-clamp command above speed.
ScaledToSpeed ==
    /\ KeepsDirection(last.dx, last.dy, last.dx0, last.dy0,
                      Tolerance(Abs(config.speed)))
    /\ NormIs(last.dx, last.dy, config.speed)

\* C16: when the pre-clamp magnitude exceeds speed the clamp multiplies both
\* components by the same positive factor speed / magnitude, so the direction
\* is kept and the new magnitude is speed; otherwise dx and dy are unchanged.
C16_NormClamp ==
    last.op = "act" =>
        IF fgt(last.magnitude, config.speed)
        THEN fgt(fdiv(config.speed, last.magnitude), 0) /\ ScaledToSpeed
        ELSE last.dx = last.dx0 /\ last.dy = last.dy0

\* C16 for speed > 0.
C16_NormClampPositiveSpeed ==
    (last.op = "act" /\ config.speed > 0) =>
        IF fgt(last.magnitude, config.speed)
        THEN fgt(fdiv(config.speed, last.magnitude), 0) /\ ScaledToSpeed
        ELSE last.dx = last.dx0 /\ last.dy = last.dy0

\* C16 for speed = 0: all of it but the positive factor (the factor is 0).
C16_NormClampZeroSpeed ==
    (last.op = "act" /\ config.speed = 0) =>
        IF fgt(last.magnitude, config.speed)
        THEN ScaledToSpeed
        ELSE last.dx = last.dx0 /\ last.dy = last.dy0

\* A call whose pre-clamp command, above a positive speed, was scaled down.
C16_ClampedPositiveSpeed ==
    /\ last.op = "act" /\ config.speed > 0
    /\ fgt(last.magnitude, config.speed)
    /\ last.dx # last.dx0

\* ------------------------------------------------------------------------
\* Properties of the two firmwares
\* ------------------------------------------------------------------------

\* The host has just terminated a non-empty line (host.line).
LineTerminated ==
    host.ch \in {CR, LF} /\ host.termRun = 1 /\ host.pos > 0

\* The command list of the protocol comment of stm32_self_test.c.
DocumentedCommands ==
    { S_SELF_TEST, S_TEST_IMU, S_TEST_MOTOR, S_TEST_ESP32, S_TEST_BATTERY,
      S_GET_RESULT, S_VERSION, S_RESET }

\* The response of stm32_self_test.c to a line that is no command.
UnknownCommand == UART_SendResponse("FAIL", "unknown command", << >>)

\* The last response answers the last line with something else than the
\* unknown-command response.
Recognised == host.txCount > 0 /\ host.txLast # UnknownCommand

\* C12: a line that is exactly a name of the documented command list
\* (SELF_TEST, TEST_IMU, TEST_MOTOR, TEST_ESP32, TEST_BATTERY, GET_RESULT,
\* VERSION, RESET) gets that command's response, never the unknown-command
\* response.
C12_DocumentedCommandsRecognised ==
    (fw = "self_test" /\ LineTerminated /\ host.line \in DocumentedCommands)
        => Recognised

\* C12 for the four commands UART_ProcessCommand compares the line with.
C12_ComparedCommandsRecognised ==
    (/\ fw = "self_test" /\ LineTerminated
     /\ host.line \in {S_SELF_TEST, S_GET_RESULT, S_VERSION, S_RESET})
        => Recognised

\* The four TEST_ commands of the list get the unknown-command response.
C12_TestCommandsUnknown ==
    (/\ fw = "self_test" /\ LineTerminated
     /\ host.line \in {S_TEST_IMU, S_TEST_MOTOR, S_TEST_ESP32, S_TEST_BATTERY})
        => host.txLast = UnknownCommand

\* The response to GET_RESULT that reports the values of result.
ReportOf(result) ==
    UART_SendResponse("OK", "IMU=%d,MOTOR_L=%d,MOTOR_R=%d,ESP32=%d,BAT=%.2fV",
                      << result.imu_ok, result.motor_left_ok,
                         result.motor_right_ok, result.esp32_ok,
                         Format2f(result.battery_voltage) >>)

\* g_self_test_result is stored, and the response to a GET_RESULT line just
\* terminated reports it.
StoredAndReported(stored) ==
    /\ st.g_self_test_result = stored
    /\ (LineTerminated /\ host.line = S_GET_RESULT)
         => (host.txCount > 0 /\ host.txLast = ReportOf(stored))

\* C13, as stated: once SELF_TEST has run, g_self_test_result holds what the
\* most recent run stored (no other command changes it) and the response to
\* GET_RESULT reports those values of IMU, MOTOR_L, MOTOR_R, ESP32 and BAT.
C13_GetResultReportsLastRun ==
    (fw = "self_test" /\ host.lastRun.valid)
        => StoredAndReported(host.lastRun.result)

\* C13, amended: g_self_test_result holds what the most recent SELF_TEST run
\* since the firmware last started (at power-on or by RESET) stored, and zeros
\* when there was none, and the response to GET_RESULT reports those values.
C13_GetResultReportsRunSinceStart ==
    fw = "self_test"
        => StoredAndReported(IF host.bootRun.valid THEN host.bootRun.result
                             ELSE ZeroResult)

\* GET_RESULT answered after a SELF_TEST run that found the ESP32 and a
\* battery voltage out of range.
C13_Witness ==
    /\ fw = "self_test" /\ LineTerminated /\ host.line = S_GET_RESULT
    /\ host.bootRun.valid
    /\ host.bootRun.result.esp32_ok = 1 /\ host.bootRun.result.battery_ok = 0
    /\ host.txLast.args[4] = 1

\* GET_RESULT answered after a SELF_TEST run and a RESET.
C13_AfterReset ==
    /\ fw = "self_test" /\ LineTerminated /\ host.line = S_GET_RESULT
    /\ host.lastRun.valid /\ ~host.bootRun.valid
    /\ host.lastRun.result.motor_left_ok = 1 /\ host.txLast.args[2] = 0

\* The receive state (g_rx_buffer, g_rx_index) of the firmware that runs.
Rx == IF fw = "self_test" THEN st ELSE wc

\* The chars of the line in progress the buffer has room for.
Kept == Prefix(host.line, RX_BUFFER_SIZE - 1)

\* C17: in both firmwares g_rx_index stays within 0..RX_BUFFER_SIZE-1 and no
\* write (of a byte or of the closing NUL) goes outside g_rx_buffer; while a
\* line arrives the buffer holds its first RX_BUFFER_SIZE-1 chars at most, the
\* later bytes being dropped; after a processed line g_rx_index is 0.
C17_RxIndexInBuffer ==
    fw \in {"self_test", "wire_check"} =>
        /\ st.g_rx_index \in 0..(RX_BUFFER_SIZE - 1)
        /\ wc.g_rx_index \in 0..(RX_BUFFER_SIZE - 1)
        /\ ~host.oob
        /\ host.termRun = 0 =>
             /\ Rx.g_rx_buffer = Prefix(Kept, host.pos)
             /\ Rx.g_rx_index = Len(Prefix(Kept, host.pos))
        /\ host.termRun > 0 => Rx.g_rx_index = 0

\* The self-test firmware has processed a line of which it dropped bytes.
C17_Witness ==
    /\ fw = "self_test" /\ LineTerminated
    /\ host.pos > RX_BUFFER_SIZE - 1
    /\ host.txCount > 0 /\ st.g_rx_index = 0

\* The wire-check firmware is dropping the bytes of a line that fills the
\* buffer.
C17_WireCheckDrops ==
    /\ fw = "wire_check" /\ host.termRun = 0
    /\ host.pos > RX_BUFFER_SIZE - 1
    /\ wc.g_rx_index = RX_BUFFER_SIZE - 1

\* A response of the form OK[...] or FAIL[...] followed by CR LF.
WellFormed(frame) ==
    /\ frame.status \in {"OK", "FAIL"}
    /\ frame.open = "[" /\ frame.close = "]"
    /\ frame.eol = "\r\n"

\* The non-empty lines the host has terminated so far.
LinesTerminated ==
    IF host.termRun = 0 /\ host.nLines > 0 THEN host.nLines - 1
    ELSE host.nLines

\* The responses the running firmware gives to a line, the self-test
\* firmware holding result.
Answers(line, result) ==
    IF fw = "self_test"
    THEN { StCommand(Prefix(line, RX_BUFFER_SIZE - 1), result, hw).frame :
             hw \in StHardware }
    ELSE { process_command(Prefix(line, RX_BUFFER_SIZE - 1), hw) :
             hw \in WcHardware }

\* A turn of the receive loop: if it received the terminator of a non-empty
\* line it transmitted exactly one response, well-formed and answering that
\* line; if not, it transmitted nothing.
AnsweredInTurn ==
    IF LineTerminated'
    THEN /\ host'.txCount = host.txCount + 1
         /\ WellFormed(host'.txLast)
         /\ host'.txLast \in Answers(host'.line, st.g_self_test_result)
    ELSE /\ host'.txCount = host.txCount
         /\ host'.txLast = host.txLast

\* C18: in both firmwares the turn that receives the CR or LF ending a
\* non-empty line transmits exactly one response, of the form OK[...] or
\* FAIL[...] followed by CR LF, which answers that line; no other turn (a byte
\* of a line, the terminator of an empty line) transmits anything; so the
\* responses are as many as the lines terminated and in their order.
C18_OneResponsePerLine ==
    /\ [](fw \in {"self_test", "wire_check"}
            => host.txCount = LinesTerminated)
    /\ [][(fw \in {"self_test", "wire_check"}) => AnsweredInTurn]_vars

\* The wire-check firmware has answered the second of two lines.
C18_Witness ==
    /\ fw = "wire_check" /\ LineTerminated
    /\ host.nLines = 2 /\ host.txCount = 2
    /\ WellFormed(host.txLast)

\* An empty line (a second terminator in a row) got no response.
C18_EmptyLineUnanswered ==
    /\ fw = "self_test" /\ host.termRun = 2 /\ host.ch = LF
    /\ host.nLines = 1 /\ host.txCount = 1

\* p is a prefix of s.
IsPrefix(p, s) == Len(p) <= Len(s) /\ SubSeq(s, 1, Len(p)) = p

\* The entries of COMMANDS whose name is a prefix of line.
Matching(line) == { i \in 1..Len(COMMANDS) : IsPrefix(COMMANDS[i].cmd, line) }

\* The first of a non-empty set of entries, in table order.
First(entries) == CHOOSE i \in entries : \A k \in entries : i <= k

\* The line process_command is given: the chars kept, up to a NUL byte.
CommandLine == CStr(Kept)

\* C19: process_command answers a line with the result of the handler of the
\* first entry of COMMANDS whose name is a prefix of the line, and with
\* FAIL[UNKNOWN_CMD:<line>] exactly when no name is a prefix of it; GET_IMU_ID
\* is answered by cmd_get_imu_id, and a line starting with ECHO by the
\* unknown-command response.
C19_FirstPrefixEntryAnswers ==
    (fw = "wire_check" /\ LineTerminated) =>
        /\ host.txCount > 0
        /\ IF Matching(CommandLine) = {}
           THEN /\ host.txLast.status = "FAIL"
                /\ host.txLast.text = "UNKNOWN_CMD:%s"
                /\ host.txLast.echo = CommandLine
           ELSE /\ host.txLast.text # "UNKNOWN_CMD:%s"
                /\ \E hw \in WcHardware :
                     host.txLast
                       = [Call(COMMANDS[First(Matching(CommandLine))].func, hw)
                            EXCEPT !.eol = "\r\n"]
        /\ host.line = S_GET_IMU_ID
             => host.txLast.text \in {"IMU_ID=0x68(104)", "IMU_ID=0x%02X"}
        /\ IsPrefix(S_ECHO, host.line)
             => host.txLast.text = "UNKNOWN_CMD:%s"

\* The line GET_IMU_ID, of which the names GET_IMU_ID and GET_IMU are
\* prefixes, answered by cmd_get_imu_id.
C19_Witness ==
    /\ fw = "wire_check" /\ LineTerminated /\ host.line = S_GET_IMU_ID
    /\ Cardinality(Matching(CommandLine)) = 2
    /\ host.txLast.text = "IMU_ID=0x68(104)"

\* A line starting with ECHO answered by the unknown-command response.
C19_EchoUnknown ==
    /\ fw = "wire_check" /\ LineTerminated /\ IsPrefix(S_ECHO, host.line)
    /\ host.txLast.status = "FAIL" /\ host.txLast.echo = host.line

====
